---- MODULE Spec2Model ----
(***************************************************************************)
(* A model of speed_up_audio.py: the batch tool that asks one playback     *)
(* speed per folder, discovers the .mp3/.m4a files below the input         *)
(* directory, groups them by the closest folder that has a speed, and      *)
(* runs ffmpeg on every file whose date-prefixed output does not exist     *)
(* yet, falling back to two simpler commands when ffmpeg exits non-zero.   *)
(*                                                                         *)
(* A directory is a sequence of names (pathlib's parts); a file path is a  *)
(* record [dir, stem, suffix].  Speeds are kept in tenths (1.5 is 15).     *)
(* Timestamps are whole days counted from 2024-01-01.                      *)
(***************************************************************************)
EXTENDS Integers, Sequences, FiniteSets, TLC

VARIABLES
    input_path,        \* Path(input_dir)
    output_path,       \* Path(output_dir)
    dirs,              \* the directories that exist
    files,             \* the files that exist: path -> ctime
    run,               \* which invocation of the script this is
    prev,              \* how the previous invocation of the script ended
    pc,                \* position in process_audio_files
    subfolders,        \* get_subfolder_speeds: the list of immediate subfolders
    si,                \* get_subfolder_speeds: index of the subfolder being asked
    answers,           \* the lines typed at the prompts of this run, in order
    subfolder_speeds,  \* folder -> speed
    audio_files,       \* the list built from the two globs
    files_by_folder,   \* insertion-ordered dict: sequence of [folder, files]
    gi,                \* index of the group being processed
    fi,                \* index of the file within the group
    speed,             \* speed of the group being processed
    file_path,         \* the file being processed
    output_file,       \* its output path
    tier,              \* which command is about to be run for it (1..3)
    attempts,          \* the subprocess.run calls made for file_path so far
    report,            \* file -> what was printed for it in this run
    invoked            \* the files ffmpeg was started for in this run

vars == <<input_path, output_path, dirs, files, run, prev, pc, subfolders, si,
          answers, subfolder_speeds, audio_files, files_by_folder, gi, fi,
          speed, file_path, output_file, tier, attempts, report, invoked>>

(***************************************************************************)
(* Bounds of the model.                                                    *)
(***************************************************************************)
\* ctimes of the input files range over MaxDay + 1 consecutive days
MaxDay == 1
\* the script is run at most MaxRuns times on the same directories
MaxRuns == 2
\* the script is run again only while at most MaxAudio audio files lie below the input root
MaxAudio == 2

\* subfolder_speeds.get(folder, 2.0)
DefaultSpeed == 20

(***************************************************************************)
(* Paths.                                                                  *)
(***************************************************************************)
Path(dir, stem, suffix) == [dir |-> dir, stem |-> stem, suffix |-> suffix]

NoPath == Path(<<>>, "", "")

\* file_path.name
Name(p) == p.stem \o p.suffix

\* Path.parent: the parts without the last one
Parent(d) == IF Len(d) = 0 THEN d ELSE SubSeq(d, 1, Len(d) - 1)

IsPrefix(a, b) == Len(a) <= Len(b) /\ SubSeq(b, 1, Len(a)) = a

\* file_path.relative_to(input_path).parent
RelativeDir(p, root) == SubSeq(p.dir, Len(root) + 1, Len(p.dir))

\* the order of Python's str on the folder names the model uses
NameRank == [n \in {"in", "out", "x", "y"} |-> CASE n = "in" -> 1 [] n = "out" -> 2 [] n = "x" -> 3 [] n = "y" -> 4]

\* Python's tuple comparison a >= b (lexicographic)
RECURSIVE TupleGE(_, _)
TupleGE(a, b) ==
    IF Len(b) = 0 THEN TRUE
    ELSE IF Len(a) = 0 THEN FALSE
    ELSE IF Head(a) = Head(b) THEN TupleGE(Tail(a), Tail(b))
    ELSE NameRank[Head(a)] > NameRank[Head(b)]

RECURSIVE JoinDir(_)
JoinDir(d) == IF Len(d) = 0 THEN "" ELSE Head(d) \o "/" \o JoinDir(Tail(d))

\* str(path)
PathStr(p) == JoinDir(p.dir) \o Name(p)

\* the order in which the file system lists a set of entries: one fixed enumeration
RECURSIVE Listing(_)
Listing(S) ==
    IF S = {} THEN <<>>
    ELSE LET e == CHOOSE e \in S : TRUE IN <<e>> \o Listing(S \ {e})

\* mkdir(parents=True)
MkdirParents(d) == dirs \cup {SubSeq(d, 1, k) : k \in 1..Len(d)}

\* Path.exists()
Exists(p) == p \in DOMAIN files \/ (p.dir \o <<Name(p)>>) \in dirs

(***************************************************************************)
(* Conversions.                                                            *)
(***************************************************************************)
Pad2(n) == IF n < 10 THEN "0" \o ToString(n) ELSE ToString(n)

MonthLengths == <<31, 29, 31, 30, 31, 30, 31, 31, 30, 31, 30, 31>>

RECURSIVE MonthAndDay(_, _)
MonthAndDay(d, m) ==
    IF d < MonthLengths[m] THEN [month |-> m, day |-> d + 1]
    ELSE MonthAndDay(d - MonthLengths[m], m + 1)

\* get_creation_date: strftime("%Y-%m-%d") of the file's ctime
get_creation_date(p) ==
    LET md == MonthAndDay(files[p], 1)
    IN "2024-" \o Pad2(md.month) \o "-" \o Pad2(md.day)

\* the lines a user may type at a prompt
Answers == {"1.5", "2", "fast"}

\* a parse that falls back to 2.0 instead of raising
ParseFloatDefaulting(text) ==
    CASE text = "1.5" -> [ok |-> TRUE, value |-> 15]
      [] OTHER        -> [ok |-> TRUE, value |-> 20]

\* float(text): the value in tenths, or a ValueError
ParseFloat(text) ==
    CASE text = "1.5" -> [ok |-> TRUE, value |-> 15]
      [] text = "2"   -> [ok |-> TRUE, value |-> 20]
      [] OTHER        -> [ok |-> FALSE, value |-> 0]

\* f"atempo={speed}"
Atempo(s) == "atempo=" \o ToString(s \div 10) \o "." \o ToString(s % 10)

\* str.lower() on a suffix
Lower(s) == CASE s = ".MP3" -> ".mp3" [] s = ".M4A" -> ".m4a" [] OTHER -> s

(***************************************************************************)
(* The initial file system.                                                *)
(***************************************************************************)
Timestamps == {30 + d : d \in 0..MaxDay}

\* the time at which the script runs: not before any ctime
Now == 30 + MaxDay

InputRoot == <<"in">>

OutputRoots == {<<"out">>, <<"in", "out">>}

Trees == {{InputRoot}, {InputRoot, <<"in", "x">>}, {InputRoot, <<"in", "x">>, <<"in", "x", "y">>}}

Candidates == {Path(<<"in">>, "a", ".mp3"), Path(<<"in", "x">>, "b", ".m4a"), Path(<<"in", "x", "y">>, "c", ".mp3")}

Notes == Path(<<"in">>, "n", ".txt")

Init ==
    /\ input_path = InputRoot
    /\ output_path \in OutputRoots
    /\ dirs \in Trees
    /\ \E S \in SUBSET {c \in Candidates : c.dir \in dirs} :
         \E t \in [S -> Timestamps] :
           files = [p \in S \cup {Notes} |-> IF p = Notes THEN 30 ELSE t[p]]
    /\ run = 1
    /\ prev = [ended |-> "none", clean |-> FALSE]
    /\ pc = "mkdir_output"
    /\ subfolders = <<>>
    /\ si = 1
    /\ answers = <<>>
    /\ subfolder_speeds = <<>>
    /\ audio_files = <<>>
    /\ files_by_folder = <<>>
    /\ gi = 1
    /\ fi = 1
    /\ speed = DefaultSpeed
    /\ file_path = NoPath
    /\ output_file = NoPath
    /\ tier = 0
    /\ attempts = <<>>
    /\ report = <<>>
    /\ invoked = {}

(***************************************************************************)
(* get_subfolder_speeds.                                                   *)
(***************************************************************************)
\* lines 58-60: create the output directory if it does not exist
MkOutputDir ==
    /\ pc = "mkdir_output"
    /\ dirs' = IF output_path \in dirs THEN dirs ELSE MkdirParents(output_path)
    /\ pc' = "list_subfolders"
    /\ UNCHANGED <<input_path, output_path, files, run, prev, subfolders, si,
                   answers, subfolder_speeds, audio_files, files_by_folder, gi,
                   fi, speed, file_path, output_file, tier, attempts, report,
                   invoked>>

\* [f for f in input_path.iterdir() if f.is_dir()]
ImmediateSubfolders == {d \in dirs : Len(d) = Len(input_path) + 1 /\ Parent(d) = input_path}

ListSubfolders ==
    /\ pc = "list_subfolders"
    /\ subfolders' = Listing(ImmediateSubfolders)
    /\ pc' = "prompt_main"
    /\ UNCHANGED <<input_path, output_path, dirs, files, run, prev, si, answers,
                   subfolder_speeds, audio_files, files_by_folder, gi, fi,
                   speed, file_path, output_file, tier, attempts, report,
                   invoked>>

\* a main-folder prompt whose answer is kept only when there are no subfolders
MainFolderSpeedsWithoutSubfoldersOnly(v) == IF subfolders = <<>> THEN (input_path :> v) ELSE <<>>

\* the speed map once the main folder's answer is stored: {input_path: v} when there
\* are no subfolders, subfolder_speeds[input_path] = v on an empty dict otherwise
MainFolderSpeeds(v) == (input_path :> v)

\* subfolder_speeds[subfolder] = v
SetSpeed(map, folder, v) == [k \in DOMAIN map \cup {folder} |-> IF k = folder THEN v ELSE map[k]]

\* the prompt for the main folder: float(speed) raises ValueError out of the script
PromptMain ==
    /\ pc = "prompt_main"
    /\ \E text \in Answers :
         LET r == ParseFloat(text) IN
         /\ answers' = Append(answers, [folder |-> input_path, text |-> text])
         /\ IF ~r.ok
            THEN /\ pc' = "aborted"
                 /\ UNCHANGED subfolder_speeds
            ELSE /\ subfolder_speeds' = MainFolderSpeeds(r.value)
                 /\ pc' = IF subfolders = <<>> THEN "glob" ELSE "prompt_subfolder"
    /\ si' = 1
    /\ UNCHANGED <<input_path, output_path, dirs, files, run, prev, subfolders,
                   audio_files, files_by_folder, gi, fi, speed, file_path,
                   output_file, tier, attempts, report, invoked>>

\* one iteration of "for subfolder in subfolders", and the return after the last
PromptSubfolder ==
    /\ pc = "prompt_subfolder"
    /\ si <= Len(subfolders)
    /\ \E text \in Answers :
         LET r == ParseFloat(text) IN
         /\ answers' = Append(answers, [folder |-> subfolders[si], text |-> text])
         /\ IF ~r.ok
            THEN /\ pc' = "aborted"
                 /\ UNCHANGED <<subfolder_speeds, si>>
            ELSE /\ subfolder_speeds' = SetSpeed(subfolder_speeds, subfolders[si], r.value)
                 /\ si' = si + 1
                 /\ pc' = IF si = Len(subfolders) THEN "glob" ELSE "prompt_subfolder"
    /\ UNCHANGED <<input_path, output_path, dirs, files, run, prev, subfolders,
                   audio_files, files_by_folder, gi, fi, speed, file_path,
                   output_file, tier, attempts, report, invoked>>

(***************************************************************************)
(* process_audio_files: discovery and grouping.                            *)
(***************************************************************************)
\* input_path.glob("**/*" + suffix)
Glob(suffix) == {p \in DOMAIN files : IsPrefix(input_path, p.dir) /\ p.suffix = suffix}

Discover ==
    /\ pc = "glob"
    /\ audio_files' = Listing(Glob(".mp3")) \o Listing(Glob(".m4a"))
    /\ pc' = "group"
    /\ UNCHANGED <<input_path, output_path, dirs, files, run, prev, subfolders,
                   si, answers, subfolder_speeds, files_by_folder, gi, fi,
                   speed, file_path, output_file, tier, attempts, report,
                   invoked>>

\* the while loop of lines 77-84, from current_folder upwards
RECURSIVE Walk(_)
Walk(current_folder) ==
    IF ~TupleGE(current_folder, input_path) THEN [found |-> FALSE, folder |-> current_folder]
    ELSE IF current_folder \in DOMAIN subfolder_speeds THEN [found |-> TRUE, folder |-> current_folder]
    ELSE IF current_folder = input_path THEN [found |-> FALSE, folder |-> current_folder]
    ELSE Walk(Parent(current_folder))

\* a lookup that gives every file to the input directory
ClosestParentIsRoot(p) == input_path

\* a lookup that takes the file's own folder, keyed or not
ClosestParentIsParent(p) == p.dir

\* lines 72-88: the closest parent folder that has a defined speed, else the input directory
ClosestParent(p) ==
    LET w == Walk(p.dir) IN IF w.found THEN w.folder ELSE input_path

\* lines 90-93: files_by_folder[closest_parent].append(file_path)
AddToGroup(groups, folder, p) ==
    IF \E i \in DOMAIN groups : groups[i].folder = folder
    THEN [i \in DOMAIN groups |->
            IF groups[i].folder = folder
            THEN [folder |-> folder, files |-> Append(groups[i].files, p)]
            ELSE groups[i]]
    ELSE Append(groups, [folder |-> folder, files |-> <<p>>])

\* the for loop of lines 70-93
RECURSIVE GroupFiles(_, _)
GroupFiles(list, groups) ==
    IF list = <<>> THEN groups
    ELSE GroupFiles(Tail(list), AddToGroup(groups, ClosestParent(Head(list)), Head(list)))

Group ==
    /\ pc = "group"
    /\ files_by_folder' = GroupFiles(audio_files, <<>>)
    /\ gi' = 1
    /\ pc' = "next_group"
    /\ UNCHANGED <<input_path, output_path, dirs, files, run, prev, subfolders,
                   si, answers, subfolder_speeds, audio_files, fi, speed,
                   file_path, output_file, tier, attempts, report, invoked>>

(***************************************************************************)
(* process_audio_files: the ffmpeg commands.                               *)
(***************************************************************************)
\* the None of line 162, removed again in line 166
NoneArg == "<None>"

\* lines 123-143
Tier1Cmd(p, s, out) ==
    IF Lower(p.suffix) = ".mp3"
    THEN <<"ffmpeg", "-i", PathStr(p), "-map", "0:a", "-filter:a", Atempo(s),
           "-c:a", "libmp3lame", "-q:a", "2", "-map_metadata", "0",
           "-id3v2_version", "3", PathStr(out)>>
    ELSE <<"ffmpeg", "-i", PathStr(p), "-map", "0:a", "-filter:a", Atempo(s),
           "-c:a", "aac", "-b:a", "192k", "-map_metadata", "0", PathStr(out)>>

\* lines 157-166: the list literal, element by element, then without its None values
Tier2Cmd(p, s, out) ==
    LET mp3 == Lower(p.suffix) = ".mp3"
        alt_cmd == <<"ffmpeg", "-i", PathStr(p),
                     "-vn",
                     "-filter:a", Atempo(s),
                     "-c:a", IF mp3 THEN "libmp3lame" ELSE "aac",
                     "-q:a", IF mp3 THEN "2" ELSE "-b:a", IF ~mp3 THEN "192k" ELSE NoneArg,
                     PathStr(out)>>
        NotNone(x) == x # NoneArg
    IN SelectSeq(alt_cmd, NotNone)

\* lines 178-183
Tier3Cmd(p, s, out) ==
    <<"ffmpeg", "-i", PathStr(p), "-vn", "-filter:a", Atempo(s), PathStr(out)>>

Cmd(t, p, s, out) ==
    CASE t = 1 -> Tier1Cmd(p, s, out)
      [] t = 2 -> Tier2Cmd(p, s, out)
      [] OTHER -> Tier3Cmd(p, s, out)

\* how subprocess.run(cmd, check=True, capture_output=True) can end: exit status 0,
\* a non-zero exit status (CalledProcessError), or ffmpeg could not be started (OSError)
Outcomes == {"exit0", "nonzero", "oserror"}

\* a handler that goes on to the next command although ffmpeg exited 0
HandlerRetriesAfterSuccess(t, outcome) ==
    CASE outcome = "oserror" -> "raise"
      [] t < 3 -> "fallback"
      [] outcome = "exit0" -> "success"
      [] OTHER -> "failed"

\* a handler whose last except clause lets the third failure escape
HandlerRaisesAfterTier3(t, outcome) ==
    CASE outcome = "exit0" -> "success"
      [] outcome = "nonzero" /\ t < 3 -> "fallback"
      [] OTHER -> "raise"

\* the try/except nest of lines 145-189: what follows the call of tier t
Handler(t, outcome) ==
    CASE outcome = "exit0" -> "success"
      [] outcome = "nonzero" /\ t < 3 -> "fallback"
      [] outcome = "nonzero" -> "failed"
      [] OTHER -> "raise"

(***************************************************************************)
(* process_audio_files: the processing loop.                               *)
(***************************************************************************)
\* subfolder_speeds.get(folder, 2.0)
GetSpeed(folder) ==
    IF folder \in DOMAIN subfolder_speeds THEN subfolder_speeds[folder] ELSE DefaultSpeed

\* lines 96-98: the next (folder, files) item, or the end of the run
EnterGroup ==
    /\ pc = "next_group"
    /\ IF gi > Len(files_by_folder)
       THEN /\ pc' = "done"
            /\ UNCHANGED <<speed, fi>>
       ELSE /\ speed' = GetSpeed(files_by_folder[gi].folder)
            /\ fi' = 1
            /\ pc' = "next_file"
    /\ UNCHANGED <<input_path, output_path, dirs, files, run, prev, subfolders,
                   si, answers, subfolder_speeds, audio_files, files_by_folder,
                   gi, file_path, output_file, tier, attempts, report, invoked>>

\* an output directory that drops the relative subdirectory
OutputSubdirFlat(p) == output_path

\* output_path / rel_path.parent
OutputSubdir(p) == output_path \o RelativeDir(p, input_path)

\* lines 110-112: output_subdir / f"{creation_date}-{file_path.name}"
OutputFile(p) == Path(OutputSubdir(p), get_creation_date(p) \o "-" \o p.stem, p.suffix)

\* an existence check that only sees directories (is_dir() for exists())
OutputExistsIsDir(out) == (out.dir \o <<Name(out)>>) \in dirs

\* an existence check made on the previous file's output path
OutputExistsStale(out) == Exists(output_file)

\* line 115: output_file.exists()
OutputExists(out) == Exists(out)

\* the position after the current file: the next file of the group, or the next group
AdvanceFile ==
    IF fi < Len(files_by_folder[gi].files)
    THEN /\ fi' = fi + 1
         /\ gi' = gi
         /\ pc' = "next_file"
    ELSE /\ fi' = 1
         /\ gi' = gi + 1
         /\ pc' = "next_group"

Reported(p, what) == [q \in DOMAIN report \cup {p} |-> IF q = p THEN what ELSE report[q]]

\* lines 100-119: reach the next file, make its output directory, skip it or go on
ReachFile ==
    /\ pc = "next_file"
    /\ LET p == files_by_folder[gi].files[fi]
           out == OutputFile(p)
       IN /\ file_path' = p
          /\ output_file' = out
          /\ dirs' = IF OutputSubdir(p) \in dirs THEN dirs ELSE MkdirParents(OutputSubdir(p))
          /\ attempts' = <<>>
          /\ IF OutputExists(out)
             THEN /\ report' = Reported(p, "skipped")
                  /\ tier' = 0
                  /\ AdvanceFile
             ELSE /\ tier' = 1
                  /\ pc' = "invoke"
                  /\ UNCHANGED <<report, gi, fi>>
    /\ UNCHANGED <<input_path, output_path, files, run, prev, subfolders, si,
                   answers, subfolder_speeds, audio_files, files_by_folder,
                   speed, invoked>>

\* lines 145-189: one subprocess.run call and the handler that follows it; an
\* ffmpeg that exits 0 has written its output file
Invoke ==
    /\ pc = "invoke"
    /\ \E outcome \in Outcomes :
         LET h == Handler(tier, outcome) IN
         /\ attempts' = Append(attempts, [tier |-> tier,
                                          cmd |-> Cmd(tier, file_path, speed, output_file),
                                          outcome |-> outcome])
         /\ invoked' = invoked \cup {file_path}
         /\ CASE h = "success" ->
                   /\ files' = [q \in DOMAIN files \cup {output_file} |->
                                  IF q = output_file THEN Now ELSE files[q]]
                   /\ report' = Reported(file_path, "ok")
                   /\ tier' = 0
                   /\ AdvanceFile
              [] h = "fallback" ->
                   /\ tier' = tier + 1
                   /\ UNCHANGED <<files, report, gi, fi, pc>>
              [] h = "failed" ->
                   /\ report' = Reported(file_path, "failed")
                   /\ tier' = 0
                   /\ AdvanceFile
                   /\ UNCHANGED files
              [] OTHER ->
                   /\ pc' = "aborted"
                   /\ UNCHANGED <<files, report, gi, fi, tier>>
    /\ UNCHANGED <<input_path, output_path, dirs, run, prev, subfolders, si,
                   answers, subfolder_speeds, audio_files, files_by_folder,
                   speed, file_path, output_file>>

(***************************************************************************)
(* The script run again on the same directories.                           *)
(***************************************************************************)
\* lines 191-197: a new process; nothing but the file system carries over
Rerun ==
    /\ pc \in {"done", "aborted"}
    /\ run < MaxRuns
    /\ Cardinality(Glob(".mp3") \cup Glob(".m4a")) <= MaxAudio
    /\ run' = run + 1
    /\ prev' = [ended |-> pc,
                clean |-> pc = "done" /\ \A p \in DOMAIN report : report[p] \in {"ok", "skipped"}]
    /\ pc' = "mkdir_output"
    /\ subfolders' = <<>>
    /\ si' = 1
    /\ answers' = <<>>
    /\ subfolder_speeds' = <<>>
    /\ audio_files' = <<>>
    /\ files_by_folder' = <<>>
    /\ gi' = 1
    /\ fi' = 1
    /\ speed' = DefaultSpeed
    /\ file_path' = NoPath
    /\ output_file' = NoPath
    /\ tier' = 0
    /\ attempts' = <<>>
    /\ report' = <<>>
    /\ invoked' = {}
    /\ UNCHANGED <<input_path, output_path, dirs, files>>

Next ==
    \/ MkOutputDir
    \/ ListSubfolders
    \/ PromptMain
    \/ PromptSubfolder
    \/ Discover
    \/ Group
    \/ EnterGroup
    \/ ReachFile
    \/ Invoke
    \/ Rerun

Spec == Init /\ [][Next]_vars

(***************************************************************************)
(* Vocabulary of the properties, stated independently of the code above.   *)
(***************************************************************************)
Range(seq) == {seq[i] : i \in DOMAIN seq}

\* the answers that are floating-point numbers
NumericAnswers == {"1.5", "2"}

\* the tempo filter argument that carries the number typed
EnteredTempo == [t \in NumericAnswers |-> IF t = "1.5" THEN "atempo=1.5" ELSE "atempo=2.0"]

\* the calendar date of a timestamp, as YYYY-MM-DD
CalendarDate == [t \in 30..34 |->
                   CASE t = 30 -> "2024-01-31" [] t = 31 -> "2024-02-01"
                     [] t = 32 -> "2024-02-02" [] t = 33 -> "2024-02-03"
                     [] t = 34 -> "2024-02-04"]

\* <output root>/d/<date>-f for the file at d/f below the input root
ExpectedOutput(p) ==
    Path(output_path \o SubSeq(p.dir, Len(input_path) + 1, Len(p.dir)),
         CalendarDate[files[p]] \o "-" \o p.stem, p.suffix)

\* the folders from the file's parent up to the input root
Ancestors(p) == {SubSeq(p.dir, 1, n) : n \in Len(input_path)..Len(p.dir)}

KeyedAncestors(p) == Ancestors(p) \cap DOMAIN subfolder_speeds

NearestKeyed(p) == CHOOSE k \in KeyedAncestors(p) : \A j \in KeyedAncestors(p) : Len(j) <= Len(k)

\* the line typed at the prompt for a folder
Typed(folder) == (CHOOSE i \in DOMAIN answers : answers[i].folder = folder)

\* the token that follows a flag in a command
ArgsOf(cmd, flag) == {cmd[k + 1] : k \in {j \in 1..(Len(cmd) - 1) : cmd[j] = flag}}

Flags == {"-i", "-map", "-vn", "-filter:a", "-c:a", "-q:a", "-b:a", "-map_metadata", "-id3v2_version"}

NumFlags(cmd) == Cardinality({k \in DOMAIN cmd : cmd[k] \in Flags})

\* the states in which get_subfolder_speeds has returned
SpeedsReturned ==
    \/ pc \in {"glob", "group", "next_group", "next_file", "invoke", "done"}
    \/ pc = "aborted" /\ attempts # <<>>

\* the states in which the grouping loop has finished
Grouped ==
    \/ pc \in {"next_group", "next_file", "invoke", "done"}
    \/ pc = "aborted" /\ attempts # <<>>

\* the file the loop is about to reach
NextFile == files_by_folder[gi].files[fi]

AllSkipped == \A p \in DOMAIN report : report[p] = "skipped"

OutputInsideInput == IsPrefix(input_path, output_path)

(***************************************************************************)
(* The properties.                                                         *)
(***************************************************************************)
\* C1: a file whose output path exists at the moment it is reached gets no ffmpeg
\* call: reaching it starts nothing, reports the skip and moves on to the next
\* file, and a file reported as skipped is never among the invoked files.
C1_SkipsExistingOutput ==
    /\ [](\A p \in DOMAIN report : report[p] = "skipped" => p \notin invoked)
    /\ [][(pc = "next_file" /\ ExpectedOutput(NextFile) \in DOMAIN files)
            => /\ invoked' = invoked
               /\ attempts' = <<>>
               /\ pc' \in {"next_file", "next_group"}
               /\ <<gi', fi'>> # <<gi, fi>>
               /\ NextFile \in DOMAIN report'
               /\ report'[NextFile] = "skipped"]_vars

C1_Witness ==
    /\ file_path \in DOMAIN report
    /\ report[file_path] = "skipped"
    /\ ExpectedOutput(file_path) \in DOMAIN files
    /\ file_path \notin invoked

\* C2: the calls made for a file are tier 1, tier 2, tier 3 in that order; a tier
\* follows only a non-zero exit of the tier before it, nothing follows an exit 0,
\* the next tier is pending exactly after a non-zero exit of tier 1 or 2, and a
\* file that was not skipped got between one and three calls.
C2_TierOrder ==
    /\ Len(attempts) <= 3
    /\ \A i \in DOMAIN attempts :
         /\ attempts[i].tier = i
         /\ i < Len(attempts) => attempts[i].outcome = "nonzero"
    /\ pc = "invoke" => tier = Len(attempts) + 1 /\ tier <= 3
    /\ (attempts # <<>> /\ attempts[Len(attempts)].outcome = "nonzero" /\ Len(attempts) < 3)
         <=> (pc = "invoke" /\ tier > 1)
    /\ \A p \in DOMAIN report :
         /\ report[p] # "skipped" => p \in invoked
         /\ (p = file_path /\ report[p] = "ok")
              => Len(attempts) \in 1..3 /\ attempts[Len(attempts)].outcome = "exit0"
         /\ (p = file_path /\ report[p] = "failed")
              => Len(attempts) = 3 /\ attempts[3].outcome = "nonzero"

C2_Witness ==
    /\ Len(attempts) = 3
    /\ attempts[1].outcome = "nonzero"
    /\ attempts[2].outcome = "nonzero"
    /\ attempts[3].outcome = "exit0"
    /\ report[file_path] = "ok"

C5_SpeedOfNearestAncestor ==
    /\ \A i \in DOMAIN attempts :
         ArgsOf(attempts[i].cmd, "-filter:a") =
           {IF KeyedAncestors(file_path) # {}
            THEN EnteredTempo[answers[Typed(NearestKeyed(file_path))].text]
            ELSE "atempo=2.0"}
    /\ pc = "invoke"
         => speed = IF KeyedAncestors(file_path) # {}
                    THEN subfolder_speeds[NearestKeyed(file_path)]
                    ELSE 20

C5_Witness ==
    /\ Len(attempts) = 2
    /\ file_path.dir = <<"in", "x", "y">>
    /\ answers[Typed(<<"in">>)].text = "2"
    /\ answers[Typed(<<"in", "x">>)].text = "1.5"
    /\ ArgsOf(attempts[2].cmd, "-filter:a") = {"atempo=1.5"}

\* C6: for the file at d/f below the input root, the path of the exists-check and
\* the output argument of every tier's command is <output root>/d/<date>-f, with
\* d unchanged and f kept after the YYYY-MM-DD creation date.
C6_OutputPath ==
    /\ (pc = "invoke" \/ attempts # <<>>) => output_file = ExpectedOutput(file_path)
    /\ \A i \in DOMAIN attempts :
         /\ attempts[i].cmd[Len(attempts[i].cmd)] = PathStr(ExpectedOutput(file_path))
         /\ ArgsOf(attempts[i].cmd, "-i") = {PathStr(file_path)}
    /\ \A p \in DOMAIN report :
         /\ report[p] = "skipped" => ExpectedOutput(p) \in DOMAIN files
         /\ report[p] = "ok" => ExpectedOutput(p) \in DOMAIN files
    /\ pc = "invoke" => ExpectedOutput(file_path) \notin DOMAIN files

C6_Witness ==
    /\ Len(attempts) = 3
    /\ file_path = Path(<<"in", "x", "y">>, "c", ".mp3")
    /\ files[file_path] = 31
    /\ output_path = <<"out">>
    /\ attempts[3].cmd[Len(attempts[3].cmd)] = "out/x/y/2024-02-01-c.mp3"

\* C7: for .mp3 and .m4a alike, the tier 2 command has strictly fewer flags than
\* the tier 1 command, has none of its stream-selection and metadata flags, and
\* keeps its codec flag and its quality/bitrate flag with the same value; the
\* tier 3 command has strictly fewer flags than tier 2 and no codec or
\* quality/bitrate flag.  (The -vn that tiers 2 and 3 carry is left aside: it is
\* not one of the flags the statement is about.)
C7_TiersStrictlySimpler ==
    /\ Len(attempts) >= 2
         => LET c1 == attempts[1].cmd
                c2 == attempts[2].cmd
            IN /\ NumFlags(c2) < NumFlags(c1)
               /\ \A k \in DOMAIN c2 : c2[k] \notin {"-map", "-map_metadata", "-id3v2_version"}
               /\ ArgsOf(c2, "-c:a") = ArgsOf(c1, "-c:a")
               /\ ArgsOf(c2, "-q:a") = ArgsOf(c1, "-q:a")
               /\ ArgsOf(c2, "-b:a") = ArgsOf(c1, "-b:a")
    /\ Len(attempts) >= 3
         => LET c2 == attempts[2].cmd
                c3 == attempts[3].cmd
            IN /\ NumFlags(c3) < NumFlags(c2)
               /\ \A k \in DOMAIN c3 : c3[k] \notin {"-c:a", "-q:a", "-b:a"}

\* C8: every prompt (the root, then each immediate subfolder) is answered with a
\* number before discovery and before any ffmpeg call; an answer that is not a
\* number ends the run at that prompt, with nothing discovered and no call made.
C8_PromptsFirst ==
    /\ (SpeedsReturned \/ audio_files # <<>> \/ invoked # {})
         => /\ Len(answers) = 1 + Len(subfolders)
            /\ answers[1].folder = input_path
            /\ {answers[i].folder : i \in 2..Len(answers)} = Range(subfolders)
            /\ \A i \in DOMAIN answers : answers[i].text \in NumericAnswers
    /\ \A i \in DOMAIN answers :
         answers[i].text \notin NumericAnswers
           => /\ i = Len(answers)
              /\ pc = "aborted"
              /\ audio_files = <<>>
              /\ invoked = {}
              /\ attempts = <<>>
    /\ pc \notin {"mkdir_output", "list_subfolders"}
         => Range(subfolders) = {d \in dirs : Len(d) = Len(input_path) + 1 /\ Parent(d) = input_path}

C8_Witness ==
    /\ pc = "aborted"
    /\ Len(answers) = 3
    /\ answers[1].text \in NumericAnswers
    /\ answers[2].text \in NumericAnswers
    /\ answers[3].text = "fast"
    /\ invoked = {}

\* C9: the grouping partitions the discovered files: each one is in exactly one
\* group, exactly once; the key of its group is its nearest ancestor that is a key
\* of the speed map (the input root when there is none), which lies between the
\* input root and the file's parent; the groups hold nothing else.
C9_GroupingPartitions ==
    Grouped =>
      /\ Len(audio_files) = Cardinality(Range(audio_files))
      /\ \A p \in Range(audio_files) :
           /\ Cardinality({pos \in {<<g, k>> : g \in DOMAIN files_by_folder, k \in 1..Len(audio_files)} :
                             /\ pos[2] <= Len(files_by_folder[pos[1]].files)
                             /\ files_by_folder[pos[1]].files[pos[2]] = p}) = 1
           /\ \A g \in DOMAIN files_by_folder :
                p \in Range(files_by_folder[g].files)
                  => /\ files_by_folder[g].folder =
                          IF KeyedAncestors(p) # {} THEN NearestKeyed(p) ELSE input_path
                     /\ IsPrefix(input_path, files_by_folder[g].folder)
                     /\ IsPrefix(files_by_folder[g].folder, p.dir)
      /\ \A g \in DOMAIN files_by_folder :
           /\ Range(files_by_folder[g].files) \subseteq Range(audio_files)
           /\ \A h \in DOMAIN files_by_folder :
                files_by_folder[g].folder = files_by_folder[h].folder => g = h

C9_Witness ==
    /\ pc = "done"
    /\ Len(files_by_folder) = 2
    /\ \E g \in DOMAIN files_by_folder :
         /\ files_by_folder[g].folder = <<"in", "x">>
         /\ Range(files_by_folder[g].files) =
              {Path(<<"in", "x">>, "b", ".m4a"), Path(<<"in", "x", "y">>, "c", ".mp3")}

\* C10: once get_subfolder_speeds has returned, the input root is a key of the
\* speed map, every key of files_by_folder is a key of the speed map, and the
\* speed in use is the map's entry, never the 2.0 of the missing-key case.
C10_RootAlwaysKeyed ==
    /\ pc = "prompt_subfolder" => input_path \in DOMAIN subfolder_speeds
    /\ SpeedsReturned
         => /\ input_path \in DOMAIN subfolder_speeds
            /\ DOMAIN subfolder_speeds = {input_path} \cup Range(subfolders)
            /\ \A g \in DOMAIN files_by_folder :
                 files_by_folder[g].folder \in DOMAIN subfolder_speeds
            /\ \A p \in Range(audio_files) : KeyedAncestors(p) # {}
    /\ pc \in {"next_file", "invoke"}
         => /\ files_by_folder[gi].folder \in DOMAIN subfolder_speeds
            /\ speed = subfolder_speeds[files_by_folder[gi].folder]

C10_Witness ==
    /\ pc = "done"
    /\ subfolders # <<>>
    /\ \E g \in DOMAIN files_by_folder :
         /\ files_by_folder[g].folder = input_path
         /\ input_path \in DOMAIN subfolder_speeds

====
